---- MODULE Spec2Model ----
(***************************************************************************)
(* GDriveDownloader (gdrive_downloader/downloader.py): a single-threaded   *)
(* wrapper around the Drive API.  The state is the on-disk token cache     *)
(* (token.pickle), the local filesystem, the remote file's metadata, the   *)
(* instance (credential + service handle) and the position and locals of   *)
(* the call in progress.  The collaborators (OAuth flow, Drive service,    *)
(* MediaIoBaseDownload, filesystem) are nondeterministic: each request     *)
(* either answers or raises.                                               *)
(*                                                                         *)
(* Python values: None / Optional[x] is the sequence << >> / <<x>>; a dict *)
(* is a function whose DOMAIN is the set of keys present; a path is the    *)
(* sequence of its components ("d/f" is <<"d","f">>, "" is << >>); a byte  *)
(* string is a sequence of numbers; a decimal string is a sequence of      *)
(* digit characters.                                                       *)
(***************************************************************************)
EXTENDS Integers, Sequences, FiniteSets, TLC

VARIABLES
    pc,         \* "start" | "failed" | "idle" | "chunks" | "finish" | "write"
    tokenFile,  \* token.pickle: [present, token, expired, refresh_token]
    creds,      \* the instance's credential (same shape; present = FALSE: none)
    service,    \* TRUE iff self.service holds an authenticated handle
    authLog,    \* collaborator/file events of the last _get_service run
    remote,     \* Optional[dict]: the remote file's metadata, << >> = no such file
    stale,      \* the remote state changed since get_file_metadata last returned
    dirs,       \* set of existing directories (paths)
    files,      \* [FilePaths -> [exists, data]]
    dirs0,      \* dirs when the current call started
    files0,     \* files when the current call started
    op,         \* name of the public method called last
    args,       \* its arguments
    ret,        \* its outcome: [kind |-> "none" | "raise" | "return", val |-> ...]
    log,        \* collaborator/filesystem events of the call, in order
    console,    \* lines the call printed to standard output
    file,       \* download_file's local io.BytesIO: [data, pos]
    done,       \* download_file's local `done`
    received,   \* chunks the collaborator delivered to the call, in order
    fault       \* the collaborator failure injected in this call ("none" if none)

vars == <<pc, tokenFile, creds, service, authLog, remote, stale, dirs, files,
          dirs0, files0, op, args, ret, log, console, file, done, received, fault>>

authVars == <<tokenFile, creds, service, authLog>>
fsVars   == <<dirs, files>>
callVars == <<dirs0, files0, op, args, ret, log, console, file, done, received, fault>>

(***************************************************************************)
(* Bounds of the model.                                                    *)
(***************************************************************************)
MaxChunks == 2    \* the collaborator's chunk sequence has at most this many chunks

(***************************************************************************)
(* Python helpers.                                                         *)
(***************************************************************************)
None == << >>
Some(x) == <<x>>
EmptyDict == [k \in {} |-> 0]

\* dict.get(key, default)
Get(d, k, default) == IF k \in DOMAIN d THEN d[k] ELSE default

\* truthiness of an Optional[dict]: None and {} are falsy
Truthy(m) == m # None /\ DOMAIN m[1] # {}

\* truthiness of a str / path argument
NonEmpty(s) == Len(s) > 0

RECURSIVE Flatten(_)
Flatten(cs) == IF cs = << >> THEN << >> ELSE Head(cs) \o Flatten(Tail(cs))

RECURSIVE Join(_, _)
Join(ss, sep) ==
    IF ss = << >> THEN ""
    ELSE IF Len(ss) = 1 THEN ss[1]
    ELSE ss[1] \o sep \o Join(Tail(ss), sep)

\* A size value: an int, or a str of decimal digits (the Drive API's int64)
IntSize(n) == [t |-> "int", n |-> n]
StrSize(s) == [t |-> "str", s |-> s]

DigitVal == [c \in {"0","1","2","3","4","5","6","7","8","9"} |->
               CASE c = "0" -> 0 [] c = "1" -> 1 [] c = "2" -> 2 [] c = "3" -> 3
                 [] c = "4" -> 4 [] c = "5" -> 5 [] c = "6" -> 6 [] c = "7" -> 7
                 [] c = "8" -> 8 [] c = "9" -> 9]

RECURSIVE ParseDigits(_, _)
ParseDigits(s, acc) ==
    IF s = << >> THEN acc ELSE ParseDigits(Tail(s), acc * 10 + DigitVal[Head(s)])

\* float(size): accepts an int or a decimal string; value in bytes
ToFloat(sz) == IF sz.t = "int" THEN sz.n ELSE ParseDigits(sz.s, 0)

\* faulty variant of Hundredths: truncation, as in download_file's message
Hundredths_Truncated(bytes) == (bytes * 100) \div 1048576

\* f"{x:.2f}" for x = bytes / 1024 / 1024 (exact in binary floating point):
\* round to hundredths, ties to even
Hundredths(bytes) ==
    LET q == (bytes * 100) \div 1048576
        r == (bytes * 100) % 1048576
    IN  IF r > 524288 THEN q + 1
        ELSE IF r = 524288 THEN q + (q % 2)
        ELSE q

Fmt2f(h) ==
    ToString(h \div 100) \o "." \o ToString((h % 100) \div 10) \o ToString(h % 10)

(***************************************************************************)
(* Authentication: __init__ and _get_service.                              *)
(***************************************************************************)
NoCreds == [present |-> FALSE, token |-> FALSE, expired |-> FALSE, refresh_token |-> FALSE]

Credentials == [present : {TRUE}, token : BOOLEAN, expired : BOOLEAN,
                refresh_token : BOOLEAN]

\* google.oauth2 Credentials.valid: a token is held and it has not expired
Valid(c) == c.token /\ ~c.expired

\* `if not creds or not creds.valid`
NeedsAuth(c) == ~c.present \/ ~Valid(c)

\* faulty variant of CanRefresh: the `creds.expired` test is dropped
CanRefresh_NoExpiredTest(c) == c.present /\ c.refresh_token

\* `if creds and creds.expired and creds.refresh_token`
CanRefresh(c) == c.present /\ c.expired /\ c.refresh_token

\* creds.refresh(Request()): a new access token and expiry, in place
Refreshed(c) == [c EXCEPT !.token = TRUE, !.expired = FALSE]

\* flow.run_local_server(...): a new credential; the provider may or may not
\* grant a refresh token
Consented(withRefresh) ==
    [present |-> TRUE, token |-> TRUE, expired |-> FALSE, refresh_token |-> withRefresh]

\* _get_service up to (not including) build(): the credential obtained, the
\* token cache afterwards and the events, for the collaborator outcome flowOk
\* (the refresh / the consent flow succeeds) and the consent's refresh grant.
get_service(tf, flowOk, withRefresh) ==
    LET loaded == IF tf.present THEN tf ELSE NoCreds
        ev0    == IF tf.present THEN <<"load">> ELSE << >>
    IN  IF ~NeedsAuth(loaded)
        THEN [raised |-> FALSE, creds |-> loaded, tokenFile |-> tf, log |-> ev0]
        ELSE LET refresh == CanRefresh(loaded)
                 ev1     == Append(ev0, IF refresh THEN "refresh" ELSE "consent")
                 got     == IF refresh THEN Refreshed(loaded) ELSE Consented(withRefresh)
             IN  IF ~flowOk
                 THEN [raised |-> TRUE, creds |-> NoCreds, tokenFile |-> tf, log |-> ev1]
                 ELSE [raised |-> FALSE, creds |-> got, tokenFile |-> got,
                       log |-> Append(ev1, "dump")]

\* GDriveDownloader(credentials_path): __init__ runs _get_service; any failure
\* of it propagates and no instance exists.
Construct(flowOk, withRefresh, buildOk) ==
    /\ pc = "start"
    /\ LET r == get_service(tokenFile, flowOk, withRefresh)
       IN  /\ tokenFile' = r.tokenFile
           /\ IF r.raised
              THEN /\ authLog' = r.log
                   /\ creds' = NoCreds /\ service' = FALSE /\ pc' = "failed"
              ELSE /\ authLog' = Append(r.log, "build")
                   /\ IF buildOk
                      THEN creds' = r.creds /\ service' = TRUE /\ pc' = "idle"
                      ELSE creds' = NoCreds /\ service' = FALSE /\ pc' = "failed"
    /\ UNCHANGED <<remote, stale, dirs, files, callVars>>

(***************************************************************************)
(* The remote service's metadata records (fields id, name, mimeType, size, *)
(* modifiedTime, owners, shared; a field may be missing) and the inputs    *)
(* the calls are tried on.                                                 *)
(***************************************************************************)
MetaStr ==
    [id |-> "a", name |-> "x", mimeType |-> "t",
     size |-> StrSize(<<"2","0","9","7","1","5","2">>),
     modifiedTime |-> "2024-01-01",
     owners |-> <<[displayName |-> "A"], [displayName |-> "B"]>>,
     shared |-> TRUE]

MetaInt ==
    [id |-> "a", name |-> "y", mimeType |-> "u", size |-> IntSize(3670016),
     modifiedTime |-> "2024-02-02", owners |-> <<[displayName |-> "A"]>>,
     shared |-> FALSE]

MetaBare == [id |-> "a", name |-> "z"]

RemoteMetas == {MetaStr, MetaInt, MetaBare}

\* dicts format_metadata is tried on, beside the remote's records
FormatDicts ==
    RemoteMetas \cup
    { EmptyDict,
      [size |-> IntSize(131072)],                  \* 0.125 MB: a rounding tie
      [size |-> StrSize(<<"3","9","3","2","1","6">>)],   \* 0.375 MB: a tie
      [size |-> IntSize(5243), shared |-> TRUE],
      [owners |-> << >>, shared |-> FALSE],
      [mimeType |-> "t", modifiedTime |-> "2024-01-01"] }

FileIds == {"", "a"}

\* "" , "f" (no directory component) , "d/f"
Paths == { << >>, <<"f">>, <<"d", "f">> }
FilePaths == Paths \ { << >> }

Chunks == { <<1>>, <<2, 3>> }
OldData == <<9>>

NoFile == [exists |-> FALSE, data |-> << >>]
EmptyBuffer == [data |-> << >>, pos |-> 0]

Raise(e)  == [kind |-> "raise", val |-> e]
Return(v) == [kind |-> "return", val |-> v]
NoResult  == [kind |-> "none", val |-> FALSE]

(***************************************************************************)
(* Collaborators.                                                          *)
(***************************************************************************)
\* service.files().get(fileId, fields).execute(): the record, or an error
\* (no such file, or a transport failure)
Respond(transportOk) ==
    IF remote # None /\ transportOk
    THEN [ok |-> TRUE, body |-> remote[1], error |-> ""]
    ELSE [ok |-> FALSE, body |-> EmptyDict,
          error |-> IF remote = None THEN "HttpError 404" ELSE "transport error"]

\* os.path.dirname
dirname(p) == IF Len(p) = 0 THEN << >> ELSE SubSeq(p, 1, Len(p) - 1)

\* os.makedirs(d, exist_ok=True): d and every missing ancestor
makedirs(ds, d) == ds \cup { SubSeq(d, 1, n) : n \in 1..Len(d) }

\* io.BytesIO
BytesIO_write(f, c) ==
    [data |-> SubSeq(f.data, 1, f.pos) \o c \o
              SubSeq(f.data, f.pos + Len(c) + 1, Len(f.data)),
     pos  |-> f.pos + Len(c)]
\* faulty variant of BytesIO_seek: the buffer is not rewound
BytesIO_seek_Missing(f, n) == f
BytesIO_seek(f, n) == [f EXCEPT !.pos = n]
BytesIO_read(f) == SubSeq(f.data, f.pos + 1, Len(f.data))

(***************************************************************************)
(* get_file_metadata and format_metadata.                                  *)
(***************************************************************************)
\* faulty variant of get_file_metadata: the try/except is missing, the error propagates
get_file_metadata_Propagates(fid, resp) ==
    IF fid = ""
    THEN [ret |-> Raise("ValueError"), console |-> << >>, log |-> << >>]
    ELSE IF resp.ok
    THEN [ret |-> Return(Some(resp.body)), console |-> << >>,
          log |-> <<"metadata_request">>]
    ELSE [ret |-> Raise(resp.error), console |-> << >>,
          log |-> <<"metadata_request">>]

\* faulty variant of get_file_metadata: on an error a stub record is returned
get_file_metadata_Stub(fid, resp) ==
    IF fid = ""
    THEN [ret |-> Raise("ValueError"), console |-> << >>, log |-> << >>]
    ELSE IF resp.ok
    THEN [ret |-> Return(Some(resp.body)), console |-> << >>,
          log |-> <<"metadata_request">>]
    ELSE [ret |-> Return(Some([id |-> fid])),
          console |-> <<"Error getting file metadata: " \o resp.error>>,
          log |-> <<"metadata_request">>]

\* faulty variant of get_file_metadata: the last snapshot is kept and served again
get_file_metadata_Cached(fid, resp) ==
    IF fid = ""
    THEN [ret |-> Raise("ValueError"), console |-> << >>, log |-> << >>]
    ELSE IF op = "get_file_metadata" /\ ret.kind = "return" /\ ret.val # None
    THEN [ret |-> ret, console |-> << >>, log |-> << >>]
    ELSE IF resp.ok
    THEN [ret |-> Return(Some(resp.body)), console |-> << >>,
          log |-> <<"metadata_request">>]
    ELSE [ret |-> Return(None),
          console |-> <<"Error getting file metadata: " \o resp.error>>,
          log |-> <<"metadata_request">>]

\* get_file_metadata(file_id), given the service's answer to the one request
\* it makes: what it returns or raises, prints and requests.
get_file_metadata(fid, resp) ==
    IF fid = ""
    THEN [ret |-> Raise("ValueError"), console |-> << >>, log |-> << >>]
    ELSE IF resp.ok
    THEN [ret |-> Return(Some(resp.body)), console |-> << >>,
          log |-> <<"metadata_request">>]
    ELSE [ret |-> Return(None),
          console |-> <<"Error getting file metadata: " \o resp.error>>,
          log |-> <<"metadata_request">>]

\* the six lines of the template
format_lines(m) ==
    LET size_mb == Hundredths(ToFloat(Get(m, "size", IntSize(0))))
        names   == [i \in 1..Len(Get(m, "owners", << >>)) |-> m.owners[i].displayName]
    IN  << "File Name: " \o Get(m, "name", "Unknown"),
           "Type: " \o Get(m, "mimeType", "Unknown"),
           "Size: " \o Fmt2f(size_mb) \o " MB",
           "Modified: " \o Get(m, "modifiedTime", "Unknown"),
           "Owner(s): " \o Join(names, ", "),
           "Shared: " \o (IF Get(m, "shared", FALSE) THEN "Yes" ELSE "No") >>

\* format_metadata(metadata), metadata an Optional[dict]
format_metadata(metadata) ==
    IF ~Truthy(metadata) THEN "No metadata available"
    ELSE Join(format_lines(metadata[1]), "\n")

(***************************************************************************)
(* Public calls on a constructed instance.                                 *)
(***************************************************************************)
CallArgs(fid, path, md) == [file_id |-> fid, output_path |-> path, metadata |-> md]

\* what every call starts from: its name and arguments, and fresh locals
Enter(name, a) ==
    /\ pc = "idle"
    /\ op' = name /\ args' = a
    /\ dirs0' = dirs /\ files0' = files
    /\ file' = EmptyBuffer /\ done' = FALSE /\ received' = << >>

GetFileMetadata(fid, transportOk) ==
    /\ Enter("get_file_metadata", CallArgs(fid, << >>, None))
    /\ LET r == get_file_metadata(fid, Respond(transportOk))
       IN  /\ ret' = r.ret /\ console' = r.console /\ log' = r.log
           /\ fault' = IF fid # "" /\ remote # None /\ ~transportOk
                       THEN "metadata" ELSE "none"
           /\ stale' = IF fid = "" THEN stale ELSE FALSE
    /\ pc' = "idle"
    /\ UNCHANGED <<authVars, remote, fsVars>>

FormatMetadata(md) ==
    /\ Enter("format_metadata", CallArgs("", << >>, md))
    /\ ret' = Return(format_metadata(md))
    /\ console' = << >> /\ log' = << >> /\ fault' = "none"
    /\ pc' = "idle"
    /\ UNCHANGED <<authVars, remote, stale, fsVars>>

(***************************************************************************)
(* download_file.                                                          *)
(***************************************************************************)
\* download_file returns: its locals stay as they were, for inspection, until
\* the next call starts
Leave == UNCHANGED <<file, done, received>>

\* faulty variants of ValidArgs: one of the two tests is missing
ValidArgs_IdOnly(fid, path) == fid # ""
ValidArgs_PathOnly(fid, path) == NonEmpty(path)

\* `if not file_id or not output_path: raise ValueError`
ValidArgs(fid, path) == fid # "" /\ NonEmpty(path)

\* the two prints before the media request; the second divides the size by
\* 1024 twice, which raises TypeError when the size is a str
PreDownload(m) ==
    LET size  == Get(m, "size", IntSize(0))
        line1 == "Preparing to download: " \o Get(m, "name", "Unknown file")
    IN  IF size.t = "str"
        THEN [raised |-> TRUE, error |-> "TypeError", console |-> <<line1>>]
        ELSE [raised |-> FALSE, error |-> "",
              console |-> <<line1,
                  "File size: " \o Fmt2f(100 * (size.n \div 1048576)) \o " MB">>]

Failed(e) == "Error downloading file: " \o e

\* download_file up to the first next_chunk: validation, metadata, the
\* pre-download prints and the media request
DownloadFile(fid, path, transportOk) ==
    /\ Enter("download_file", CallArgs(fid, path, None))
    /\ UNCHANGED <<authVars, remote, fsVars>>
    /\ IF ~ValidArgs(fid, path)
       THEN /\ ret' = Raise("ValueError")
            /\ console' = << >> /\ log' = << >> /\ fault' = "none"
            /\ pc' = "idle" /\ stale' = stale
       ELSE LET r == get_file_metadata(fid, Respond(transportOk))
                m == r.ret.val
            IN  /\ stale' = FALSE
                /\ fault' = IF remote # None /\ ~transportOk THEN "metadata" ELSE "none"
                /\ IF r.ret.kind = "raise"         \* caught by `except Exception`
                   THEN /\ ret' = Return(FALSE)
                        /\ console' = Append(r.console, Failed(r.ret.val))
                        /\ log' = r.log
                        /\ pc' = "idle"
                   ELSE IF ~Truthy(m)
                   THEN /\ ret' = Return(FALSE)
                        /\ console' = r.console /\ log' = r.log
                        /\ pc' = "idle"
                   ELSE LET pre == PreDownload(m[1])
                        IN  IF pre.raised
                            THEN /\ ret' = Return(FALSE)
                                 /\ console' = r.console \o pre.console
                                                \o <<Failed(pre.error)>>
                                 /\ log' = r.log
                                 /\ pc' = "idle"
                            ELSE /\ ret' = NoResult
                                 /\ console' = r.console \o pre.console
                                 /\ log' = Append(r.log, "media_request")
                                 /\ pc' = "chunks"

\* faulty variant of AfterChunk: the loop is left after the first chunk
AfterChunk_IfNotWhile(d) == "finish"

\* the loop test `while not done` after a chunk came with completion flag d
AfterChunk(d) == IF d THEN "finish" ELSE "chunks"

\* one turn of `while not done`: downloader.next_chunk() delivers chunk c
\* into the buffer with completion flag d, or raises.  The percentage
\* printed is the collaborator's status value and is left out of the line.
NextChunk(c, d, ok) ==
    /\ pc = "chunks"
    /\ Len(received) < MaxChunks
    /\ (Len(received) + 1 = MaxChunks) => d
    /\ log' = Append(log, "next_chunk")
    /\ IF ok
       THEN /\ file' = BytesIO_write(file, c)
            /\ received' = Append(received, c)
            /\ done' = d
            /\ console' = Append(console, "Download progress")
            /\ pc' = AfterChunk(d)
            /\ UNCHANGED <<ret, fault>>
       ELSE /\ ret' = Return(FALSE) /\ fault' = "chunk"
            /\ console' = Append(console, Failed("HttpError"))
            /\ pc' = "idle"
            /\ Leave
    /\ UNCHANGED <<authVars, remote, stale, fsVars, dirs0, files0, op, args>>

\* after the loop: print, file.seek(0), os.makedirs(dirname(output_path))
MakeDirs(ok) ==
    /\ pc = "finish"
    /\ log' = Append(log, "makedirs")
    /\ LET d == dirname(args.output_path)
       IN  IF d = << >> \/ ~ok
           THEN /\ ret' = Return(FALSE)
                /\ fault' = IF d = << >> THEN fault ELSE "makedirs"
                /\ console' = console \o <<"\nDownload completed!",
                       Failed(IF d = << >> THEN "FileNotFoundError" ELSE "OSError")>>
                /\ pc' = "idle"
                /\ file' = BytesIO_seek(file, 0)
                /\ UNCHANGED <<dirs, done, received>>
           ELSE /\ dirs' = makedirs(dirs, d)
                /\ file' = BytesIO_seek(file, 0)
                /\ UNCHANGED <<done, received>>
                /\ console' = Append(console, "\nDownload completed!")
                /\ pc' = "write"
                /\ UNCHANGED <<ret, fault>>
    /\ UNCHANGED <<authVars, remote, stale, files, dirs0, files0, op, args>>

\* open(output_path, 'wb') and f.write(file.read()); a failing open leaves
\* the file alone, a failing write leaves the file open() truncated
WriteFile(ok, opened) ==
    /\ pc = "write"
    /\ log' = Append(log, "write")
    /\ LET data == BytesIO_read(file)
           path == args.output_path
       IN  IF ok
           THEN /\ files' = [files EXCEPT ![path] = [exists |-> TRUE, data |-> data]]
                /\ ret' = Return(TRUE)
                /\ UNCHANGED <<console, fault>>
           ELSE /\ files' = IF opened
                            THEN [files EXCEPT ![path] =
                                     [exists |-> TRUE, data |-> << >>]]
                            ELSE files
                /\ ret' = Return(FALSE) /\ fault' = "write"
                /\ console' = Append(console, Failed("OSError"))
    /\ pc' = "idle"
    /\ Leave
    /\ UNCHANGED <<authVars, remote, stale, dirs, dirs0, files0, op, args>>

(***************************************************************************)
(* Environment: the remote file changes, time passes, the process is run   *)
(* again (token.pickle and the filesystem persist across runs).            *)
(***************************************************************************)
RemoteChange(m) ==
    /\ pc = "idle"
    /\ m # remote
    /\ remote' = m /\ stale' = TRUE
    /\ UNCHANGED <<pc, authVars, fsVars, callVars>>

Expire ==
    /\ pc = "start"
    /\ tokenFile.present /\ ~tokenFile.expired
    /\ tokenFile' = [tokenFile EXCEPT !.expired = TRUE]
    /\ UNCHANGED <<pc, creds, service, authLog, remote, stale, fsVars, callVars>>

Restart ==
    /\ pc \in {"idle", "failed"}
    /\ pc' = "start"
    /\ creds' = NoCreds /\ service' = FALSE /\ authLog' = << >>
    /\ op' = "" /\ args' = CallArgs("", << >>, None) /\ ret' = NoResult
    /\ log' = << >> /\ console' = << >> /\ fault' = "none"
    /\ file' = EmptyBuffer /\ done' = FALSE /\ received' = << >>
    /\ dirs0' = dirs /\ files0' = files
    /\ UNCHANGED <<tokenFile, remote, stale, fsVars>>

(***************************************************************************)
(* Specification.                                                          *)
(***************************************************************************)
Init ==
    /\ pc = "start"
    /\ tokenFile \in {NoCreds} \cup Credentials
    /\ creds = NoCreds /\ service = FALSE /\ authLog = << >>
    /\ remote \in {None} \cup { Some(m) : m \in RemoteMetas }
    /\ stale = FALSE
    \* the directory d may exist, with or without an old file d/f in it; the
    \* working directory holds no file f
    /\ dirs \in { {}, {<<"d">>} }
    /\ files \in [FilePaths -> {NoFile, [exists |-> TRUE, data |-> OldData]}]
    /\ \A p \in FilePaths : files[p].exists => Len(p) > 1 /\ dirname(p) \in dirs
    /\ dirs0 = dirs /\ files0 = files
    /\ op = "" /\ args = CallArgs("", << >>, None) /\ ret = NoResult
    /\ log = << >> /\ console = << >> /\ fault = "none"
    /\ file = EmptyBuffer /\ done = FALSE /\ received = << >>

Next ==
    \/ \E flowOk, withRefresh, buildOk \in BOOLEAN : Construct(flowOk, withRefresh, buildOk)
    \/ \E fid \in FileIds, transportOk \in BOOLEAN : GetFileMetadata(fid, transportOk)
    \/ \E md \in {None} \cup { Some(m) : m \in FormatDicts } : FormatMetadata(md)
    \/ \E fid \in FileIds, path \in Paths, transportOk \in BOOLEAN :
          DownloadFile(fid, path, transportOk)
    \/ \E c \in Chunks, d, ok \in BOOLEAN : NextChunk(c, d, ok)
    \/ \E ok \in BOOLEAN : MakeDirs(ok)
    \/ \E ok, opened \in BOOLEAN : WriteFile(ok, opened)
    \/ \E m \in {None} \cup { Some(x) : x \in RemoteMetas } : RemoteChange(m)
    \/ Expire
    \/ Restart

Spec == Init /\ [][Next]_vars

\* the same, with the scheduling of a synchronous call: a call in progress
\* keeps running (the collaborator answers or raises)
FairSpec ==
    /\ Spec
    /\ WF_vars(\E c \in Chunks, d, ok \in BOOLEAN : NextChunk(c, d, ok))
    /\ WF_vars(\E ok \in BOOLEAN : MakeDirs(ok))
    /\ WF_vars(\E ok, opened \in BOOLEAN : WriteFile(ok, opened))

(***************************************************************************)
(* Properties.                                                             *)
(***************************************************************************)
Has(q, e) == \E i \in 1..Len(q) : q[i] = e
Count(q, e) == Cardinality({ i \in 1..Len(q) : q[i] = e })
Last(q) == q[Len(q)]
IsPrefix(a, b) == Len(a) <= Len(b) /\ a = SubSeq(b, 1, Len(a))

ReturnedValue(v) == pc = "idle" /\ ret.kind = "return" /\ ret.val = v

\* the call in progress or last made is download_file with both arguments given
DownloadCall ==
    op = "download_file" /\ args.file_id # "" /\ args.output_path # << >>

\* the metadata request of the call failed: the service raised (no such file,
\* or a transport failure)
MetadataRequestFailed == fault = "metadata" \/ (~stale /\ remote = None)

\* C1: a download_file call with an empty file_id or output_path, and a
\* get_file_metadata call with an empty file_id, raises ValueError and has
\* done no I/O: no request, no directory, no file write, no console output.
C1_InvalidArgumentBeforeIO ==
    (\/ op = "download_file" /\ (args.file_id = "" \/ args.output_path = << >>)
     \/ op = "get_file_metadata" /\ args.file_id = "")
    => /\ pc = "idle"
       /\ ret.kind = "raise" /\ ret.val = "ValueError"
       /\ log = << >> /\ console = << >>
       /\ dirs = dirs0 /\ files = files0

C1_Witness ==
    /\ op = "download_file" /\ args.file_id = "a" /\ args.output_path = << >>
    /\ ret.kind = "raise"

\* C2: download_file with both arguments given, a metadata record available
\* (whatever its size field) and no collaborator or filesystem failure prints
\* its pre-download messages, creates the parent directories, writes the file
\* at output_path and returns True.
C2_DownloadSucceeds ==
    (pc = "idle" /\ DownloadCall /\ fault = "none" /\ ~stale /\ remote # None)
    => /\ ret.kind = "return" /\ ret.val = TRUE
       /\ Len(console) >= 2
       /\ files[args.output_path].exists
       /\ dirname(args.output_path) # << >> => dirname(args.output_path) \in dirs

\* C3: when download_file returns True the file at output_path holds exactly
\* the chunks delivered, concatenated in the order received and ending with
\* the one that signalled completion; nothing of the old file remains.
C3_FileIsChunksInOrder ==
    (op = "download_file" /\ ReturnedValue(TRUE))
    => /\ done /\ Len(received) >= 1
       /\ files[args.output_path] = [exists |-> TRUE, data |-> Flatten(received)]

C3_Witness ==
    /\ op = "download_file" /\ ReturnedValue(TRUE)
    /\ files0[args.output_path].exists
    /\ received = << <<2, 3>>, <<1>> >>

\* C4: when the metadata retrieval of download_file fails, the call returns
\* False with the metadata request as its only request: no media request, no
\* chunk, no directory created, the file at output_path untouched.
C4_NoMetadataNoDownload ==
    (DownloadCall /\ MetadataRequestFailed)
    => /\ ReturnedValue(FALSE)
       /\ log = <<"metadata_request">>
       /\ dirs = dirs0 /\ files = files0

C4_Witness ==
    /\ DownloadCall /\ fault = "metadata" /\ ReturnedValue(FALSE)
    /\ args.output_path = <<"d", "f">>

\* C5: with non-empty arguments nothing propagates out of get_file_metadata
\* or download_file: a failed metadata request makes get_file_metadata return
\* None, and a failure of the metadata request, a chunk request, makedirs or
\* the file write makes download_file return False at once, the failed
\* request being the last one made and made once.
C5_FailuresAreSwallowed ==
    /\ (op = "get_file_metadata" /\ args.file_id # "")
       => /\ ret.kind = "return"
          /\ MetadataRequestFailed => ret.val = None /\ log = <<"metadata_request">>
    /\ DownloadCall
       => /\ ret.kind # "raise"
          /\ pc = "idle" => ret.kind = "return"
          /\ (fault # "none" \/ MetadataRequestFailed) => ReturnedValue(FALSE)
          /\ fault = "metadata" => log = <<"metadata_request">>
          /\ fault = "chunk" => /\ Last(log) = "next_chunk"
                                /\ Count(log, "next_chunk") = Len(received) + 1
          /\ fault = "makedirs" => Last(log) = "makedirs" /\ Count(log, "makedirs") = 1
          /\ fault = "write" => Last(log) = "write" /\ Count(log, "write") = 1

C5_Witness ==
    /\ DownloadCall /\ fault = "chunk" /\ Len(received) = 1 /\ ReturnedValue(FALSE)

\* C6: a media request or chunk request is only ever made on an instance
\* whose construction obtained a credential and built the service handle,
\* and by a download_file call whose file_id and output_path are non-empty;
\* a failed construction leaves no instance.
C6_DownloadNeedsCredentialAndArgs ==
    /\ (pc \in {"chunks", "finish", "write"} \/ Has(log, "media_request")
          \/ Has(log, "next_chunk"))
       => /\ service /\ creds.present /\ creds.token /\ ~creds.expired
          /\ authLog # << >> /\ Last(authLog) = "build"
          /\ op = "download_file"
          /\ args.file_id # "" /\ args.output_path # << >>
    /\ pc = "failed" => ~service /\ ~creds.present /\ log = << >>

C6_Witness ==
    /\ pc = "chunks" /\ Len(received) = 1
    /\ authLog = <<"consent", "dump", "build">>

\* what format_metadata is to render for each record of FormatDicts
ExpectedFormat(d) ==
    CASE d = MetaStr ->
           "File Name: x\nType: t\nSize: 2.00 MB\nModified: 2024-01-01\nOwner(s): A, B\nShared: Yes"
      [] d = MetaInt ->
           "File Name: y\nType: u\nSize: 3.50 MB\nModified: 2024-02-02\nOwner(s): A\nShared: No"
      [] d = MetaBare ->
           "File Name: z\nType: Unknown\nSize: 0.00 MB\nModified: Unknown\nOwner(s): \nShared: No"
      [] d = [size |-> IntSize(131072)] ->
           "File Name: Unknown\nType: Unknown\nSize: 0.12 MB\nModified: Unknown\nOwner(s): \nShared: No"
      [] d = [size |-> StrSize(<<"3","9","3","2","1","6">>)] ->
           "File Name: Unknown\nType: Unknown\nSize: 0.38 MB\nModified: Unknown\nOwner(s): \nShared: No"
      [] d = [size |-> IntSize(5243), shared |-> TRUE] ->
           "File Name: Unknown\nType: Unknown\nSize: 0.01 MB\nModified: Unknown\nOwner(s): \nShared: Yes"
      [] d = [owners |-> << >>, shared |-> FALSE] ->
           "File Name: Unknown\nType: Unknown\nSize: 0.00 MB\nModified: Unknown\nOwner(s): \nShared: No"
      [] d = [mimeType |-> "t", modifiedTime |-> "2024-01-01"] ->
           "File Name: Unknown\nType: t\nSize: 0.00 MB\nModified: 2024-01-01\nOwner(s): \nShared: No"
      [] d = EmptyDict ->
           "File Name: Unknown\nType: Unknown\nSize: 0.00 MB\nModified: Unknown\nOwner(s): \nShared: No"

\* C7 as stated: format_metadata returns "No metadata available" if and only
\* if the metadata is absent; every present record, also one with all fields
\* missing, is rendered by the six-line template with its defaults.
C7_TemplateForEveryPresentRecord ==
    op = "format_metadata"
    => /\ ret.val = "No metadata available" <=> args.metadata = None
       /\ args.metadata # None => ret.val = ExpectedFormat(args.metadata[1])

\* C7 as amended: format_metadata returns "No metadata available" if and only
\* if the metadata is absent or is a record with no field at all; every
\* record with at least one field is rendered by the six-line template, a
\* missing name, mimeType or modifiedTime as "Unknown", a missing size as
\* 0.00 MB, missing owners as the empty string, owners joined with ", " in
\* order, shared as "Yes" when true and "No" otherwise.
C7_TemplateForEveryNonEmptyRecord ==
    op = "format_metadata"
    => IF args.metadata = None \/ args.metadata = Some(EmptyDict)
       THEN ret.val = "No metadata available"
       ELSE /\ ret.val = ExpectedFormat(args.metadata[1])
            /\ ret.val # "No metadata available"

C7_Witness ==
    /\ op = "format_metadata"
    /\ args.metadata = Some([size |-> StrSize(<<"3","9","3","2","1","6">>)])
    /\ ret.kind = "return"

\* C8: get_file_metadata does not cache.  Every call with a non-empty file_id
\* makes exactly one metadata request and returns what it answered: the
\* remote's record as it is now, or None when the request failed.  So two
\* calls in a row with the remote unchanged return equal snapshots, and a
\* call after a change returns the new record.
C8_NoCache ==
    [][ (pc = "idle" /\ op' = "get_file_metadata" /\ args'.file_id # ""
           /\ remote' = remote)
        => /\ log' = <<"metadata_request">>
           /\ ret'.kind = "return"
           /\ ret'.val = (IF remote # None /\ fault' = "none" THEN remote ELSE None)
           /\ (op = "get_file_metadata" /\ args.file_id # "" /\ ~stale
                 /\ ret.kind = "return" /\ ret.val # None /\ ret'.val # None)
              => ret'.val = ret.val ]_vars

C8_Witness ==
    /\ op = "get_file_metadata" /\ args.file_id = "a" /\ ~stale
    /\ ret.kind = "return" /\ ret.val = remote /\ remote = Some(MetaInt)

\* C9: _get_service takes exactly one of three branches from the cached
\* credential: valid: used as it is, no refresh, no consent flow, no write of
\* the token cache; invalid, expired and with a refresh token: refreshed, no
\* consent flow; otherwise the consent flow.  The token cache is written
\* exactly when the refresh or the consent flow succeeded and then holds the
\* credential obtained; when it fails the constructor fails and the token
\* cache is as before.
C9_AuthenticationBranches ==
    [][ (pc = "start" /\ pc' # "start")
        => LET c       == tokenFile
               cached  == c.present /\ c.token /\ ~c.expired
               refresh == c.present /\ ~cached /\ c.expired /\ c.refresh_token
               flowRan == Has(authLog', "refresh") \/ Has(authLog', "consent")
               flowOk  == flowRan /\ Has(authLog', "build")
           IN  /\ Count(authLog', "refresh") + Count(authLog', "consent")
                    = (IF cached THEN 0 ELSE 1)
               /\ Has(authLog', "refresh") <=> refresh
               /\ Has(authLog', "dump") <=> flowOk
               /\ cached => tokenFile' = c /\ (pc' = "idle" => creds' = c)
               /\ flowOk => /\ tokenFile'.present /\ tokenFile'.token
                            /\ ~tokenFile'.expired
                            /\ refresh => tokenFile' = [c EXCEPT !.token = TRUE,
                                                                 !.expired = FALSE]
                            /\ pc' = "idle" => creds' = tokenFile'
               /\ (flowRan /\ ~flowOk) => pc' = "failed" /\ tokenFile' = c
               /\ pc' \in {"idle", "failed"}
               /\ pc' = "idle" <=> service' ]_vars

C9_Witness ==
    /\ pc = "idle" /\ authLog = <<"load", "refresh", "dump", "build">>
    /\ tokenFile.token /\ ~tokenFile.expired

\* the order of the events of a download that gets k chunks
Canonical(k) ==
    <<"metadata_request", "media_request">> \o [i \in 1..k |-> "next_chunk"]
        \o <<"makedirs", "write">>

\* C10 (order): the events of a download_file call are one metadata request,
\* one media request, the chunk requests, makedirs, the file write, in that
\* order; no chunk is requested after the completion signal; makedirs and the
\* write come only after it, so a call that fails before leaves the
\* directories and the file as they were; True is returned after the write.
C10_Order ==
    DownloadCall
    => /\ \E k \in 0..MaxChunks : IsPrefix(log, Canonical(k))
       /\ done => pc # "chunks" /\ Count(log, "next_chunk") = Len(received)
       /\ (Has(log, "makedirs") \/ pc \in {"finish", "write"}) => done
       /\ ~Has(log, "makedirs") => dirs = dirs0
       /\ ~Has(log, "write") => files = files0
       /\ (pc = "idle" /\ ret.kind = "return" /\ ret.val)
          => log = Canonical(Len(received))

\* C10: the order above, and the chunk loop ends: a call that is requesting
\* chunks returns (the collaborator's chunk sequence being finite).
C10_OrderAndTermination ==
    /\ []C10_Order
    /\ (pc = "chunks") ~> (pc = "idle")

C10_Witness ==
    /\ op = "download_file" /\ ReturnedValue(TRUE)
    /\ log = Canonical(2)
    /\ dirs # dirs0

====
